---- MODULE Spec2Model ----
(***************************************************************************)
(* feedrick: utilities over an ssb flumedb offset log (src/src/main.rs).   *)
(* One invocation of the command line tool is one run of the state         *)
(* machine: the subcommand's arm of main() is cut into its steps, the file *)
(* system is the state that outlives it.                                   *)
(***************************************************************************)
EXTENDS Integers, Sequences, FiniteSets, TLC

(***************************************************************************)
(* Bounds of the model.                                                    *)
(***************************************************************************)
MaxLen == 3
MaxLenSort == 3
MaxLenValidate == 4
MaxLenVerify == 4
MaxLenPair == 2
MaxChunk == 2
MaxLenProgress == 3
MaxLenView == 3
MaxKeys == 3

(***************************************************************************)
(* Program constants.                                                      *)
(***************************************************************************)
\* .chunks(2000) of the parallel verify arm
CHUNK_SIZE == 2000

(***************************************************************************)
(* Log entries.  The payload bytes of an entry are a record of what the    *)
(* program can observe of them: whether all bytes are zero, whether they   *)
(* parse as JSON, and the JSON members the program and its collaborators   *)
(* read.  id is the message key (the hash of the bytes), prev the key the  *)
(* message names as its predecessor (0: null), sig whether the signature   *)
(* is the author's, len the number of bytes.                               *)
(***************************************************************************)
Payload(k, a, h, t, s, i, p) ==
    [kind |-> k, author |-> a, hasTs |-> h, ts |-> t, sig |-> s, id |-> i, prev |-> p,
     len |-> IF k = "json" THEN 2 ELSE 1]

Zero == Payload("zero", "none", FALSE, 0, FALSE, 0, 0)
Garbage == Payload("garbage", "none", FALSE, 0, FALSE, 0, 0)
\* a JSON document with no string value.author
NoAuthor == Payload("json", "none", TRUE, 1, FALSE, 0, 0)
Msg(a, t, s, i, p) == Payload("json", a, TRUE, t, s, i, p)
\* a JSON message with an author and no numeric value.timestamp
MsgNoTs(a, i) == Payload("json", a, FALSE, 0, TRUE, i, 0)

\* data.iter().all(|b| *b == 0)
IsTombstone(d) == d.kind = "zero"

\* serde_json::from_slice(&e.data) is Ok
JsonOk(d) == d.kind = "json"

\* v.get("value").and_then(|v| v.get("author")).and_then(|v| v.as_str()):
\* "none" stands for None
AuthorOf(d) == IF JsonOk(d) THEN d.author ELSE "none"

\* a default other than 0.0
TimestampDefaultOne(d) == IF JsonOk(d) /\ d.hasTs THEN d.ts ELSE 1

\* .and_then(|v| v.as_f64()).unwrap_or(0.0) of value.timestamp
get_entry_timestamp(d) == IF JsonOk(d) /\ d.hasTs THEN d.ts ELSE 0

(***************************************************************************)
(* The offset log: a file is a sequence of entries, an entry's offset is   *)
(* the byte position of its frame.                                         *)
(***************************************************************************)
\* the same bytes, padded to n bytes
Sized(d, n) == [d EXCEPT !.len = n]

\* data.len()
DataLen(d) == d.len
\* a frame of OffsetLog<u32>: the length, the bytes, the length again and
\* the position of the next frame
FrameLen(d) == DataLen(d) + 12

RECURSIVE EndOf(_)
\* OffsetLog::end(): the length of the file
EndOf(log) == IF log = <<>> THEN 0
              ELSE EndOf(SubSeq(log, 1, Len(log) - 1)) + FrameLen(log[Len(log)])

\* the offset of the i-th entry (1-based)
OffsetOf(log, i) == EndOf(SubSeq(log, 1, i - 1))

Paths == {"a.log", "b.log"}
Missing == [exists |-> FALSE, log |-> <<>>]
File(l) == [exists |-> TRUE, log |-> l]

SeqsUpTo(D, n) == UNION {[1..k -> D] : k \in 0..n}

\* an entry of a file that is there before the run and is not a source
Old == Msg("O", 9, TRUE, 9, 0)

\* the file systems a run starts from: the first path missing or holding any
\* log over D of at most n entries, the second missing or holding one entry
FileSystems(D, n) ==
    { [p \in Paths |-> IF p = "a.log" THEN a ELSE b] :
        a \in {Missing} \cup {File(l) : l \in SeqsUpTo(D, n)},
        b \in {Missing, File(<<Old>>)} }

Feeds == {"A", "B"}

VARIABLES
    fs,         \* the file system: path -> [exists, log]
    args,       \* the parsed command line (sub_m)
    chunk_size, \* the chunk size of parallel verify
    pc,         \* the position in main()
    result,     \* "running", or how main() ended: "ok", "err", "panic"
    report,     \* the kinds of lines printed so far
    opened,     \* the source log has been opened by this run
    in_len,     \* in_log.end(), read when the source was opened
    pos,        \* entries the scan's iterator has yielded
    count, prev_pct, bytes, \* copy_log_entries' counters
    progress,   \* the progress lines written: <<pct, count, bytes>>
    copied,     \* source positions appended to the destination, in order
    dest_ops,   \* what the run did to the destination file, in order
    fs0,        \* the file system when the run started
    entries,    \* sort: the (timestamp, offset) pairs
    previous_messages_by_author, \* validate: author -> raw bytes
    oks, errors,    \* validate: the partition of (result, author), as <<position, author>>
    audits,     \* validate: the calls of validate_hash_chain, in order
    summary,    \* validate: author -> the positions of its failed messages
    stats,      \* validate: the numbers of the report line, <<>> when none
    printed,    \* validate: the author lines printed, in order
    ok,         \* verify: the aggregate result
    calls,      \* verify: the verifier's calls, each the positions it was given
    history,    \* the runs that ended before this one, oldest first
    raw,        \* view: the terminal's raw mode: "never", "on", "released"
    cursor,     \* view: the log iterator's position, 0: before the first entry
    shown,      \* view: the position of the entry print_entry wrote last, 0: none
    last_out,   \* view: what the last key wrote: "none", "entry", "norecord"
    last_key,   \* view: the last item stdin.keys() gave
    keys        \* view: the items stdin.keys() has given

runv == <<args, chunk_size, fs0, history>>
copyv == <<count, prev_pct, bytes, progress>>
valv == <<previous_messages_by_author, oks, errors, audits, summary, stats, printed>>
verv == <<ok, calls>>
viewv == <<raw, cursor, shown, last_out, last_key, keys>>

vars == <<fs, args, chunk_size, pc, result, report, opened, in_len, pos,
          count, prev_pct, bytes, progress, copied, dest_ops, fs0, entries,
          previous_messages_by_author, oks, errors, audits, summary, stats,
          printed, ok, calls, history, raw, cursor, shown, last_out, last_key,
          keys>>

in_path == args.in_path
out_path == args.out_path
in_log == fs[in_path].log
out_log == fs[out_path].log

ExtractArgs ==
    [cmd : {"extract"}, in_path : Paths, out_path : Paths, feed_id : Feeds,
     overwrite : BOOLEAN, invert : BOOLEAN, parallel : {FALSE}]

SortArgs ==
    [cmd : {"sort"}, in_path : Paths, out_path : Paths, feed_id : {"A"},
     overwrite : BOOLEAN, invert : {FALSE}, parallel : {FALSE}]

\* validate and verify take --in alone: out_path is not read
ValidateArgs ==
    [cmd : {"validate"}, in_path : Paths, out_path : {"b.log"}, feed_id : {"A"},
     overwrite : {FALSE}, invert : {FALSE}, parallel : {FALSE}]

VerifyArgs ==
    [cmd : {"verify"}, in_path : Paths, out_path : {"b.log"}, feed_id : {"A"},
     overwrite : {FALSE}, invert : {FALSE}, parallel : BOOLEAN]

\* view takes FILE alone
ViewArgs ==
    [cmd : {"view"}, in_path : Paths, out_path : {"b.log"}, feed_id : {"A"},
     overwrite : {FALSE}, invert : {FALSE}, parallel : {FALSE}]

Start(D, n, A, C) ==
    /\ fs \in FileSystems(D, n)
    /\ args \in A
    /\ chunk_size \in C
    /\ pc = "start"
    /\ result = "running"
    /\ report = {}
    /\ opened = FALSE
    /\ in_len = 0
    /\ pos = 0
    /\ count = 0
    /\ prev_pct = 0
    /\ bytes = 0
    /\ progress = <<>>
    /\ copied = <<>>
    /\ dest_ops = <<>>
    /\ fs0 = fs
    /\ entries = <<>>
    /\ previous_messages_by_author = <<>>
    /\ oks = <<>>
    /\ errors = <<>>
    /\ audits = <<>>
    /\ summary = <<>>
    /\ stats = <<>>
    /\ printed = <<>>
    /\ ok = TRUE
    /\ calls = <<>>
    /\ history = <<>>
    /\ raw = "never"
    /\ cursor = 0
    /\ shown = 0
    /\ last_out = "none"
    /\ last_key = "none"
    /\ keys = 0

Finish(res, lines) ==
    /\ pc' = "done"
    /\ result' = res
    /\ report' = report \cup lines

(***************************************************************************)
(* extract                                                                 *)
(***************************************************************************)
\* the test without its negation
RefusedUnnegated == args.overwrite /\ fs[out_path].exists

\* !overwrite && Path::new(out_path).exists()
Refused == ~args.overwrite /\ fs[out_path].exists

ExtractRefuse ==
    /\ pc = "start" /\ args.cmd = "extract"
    /\ Refused
    /\ Finish("ok", {"exists"})
    /\ UNCHANGED <<fs, runv, viewv, opened, in_len, pos, copyv, copied, dest_ops,
                   entries, valv, verv>>

\* the extract arm without its own test of in_log.end(), which leaves the
\* test to copy_log_entries
ExtractOpenUnguarded ==
    /\ pc = "start" /\ args.cmd = "extract"
    /\ ~Refused
    /\ IF ~fs[in_path].exists
       THEN /\ Finish("err", {})
            /\ UNCHANGED <<opened, in_len>>
       ELSE /\ opened' = TRUE
            /\ in_len' = EndOf(in_log)
            /\ pc' = "create" /\ UNCHANGED <<result, report>>
    /\ UNCHANGED <<fs, runv, viewv, pos, copyv, copied, dest_ops, entries, valv, verv>>

ExtractOpen ==
    /\ pc = "start" /\ args.cmd = "extract"
    /\ ~Refused
    /\ IF ~fs[in_path].exists
       THEN /\ Finish("err", {})
            /\ UNCHANGED <<opened, in_len>>
       ELSE /\ opened' = TRUE
            /\ in_len' = EndOf(in_log)
            /\ IF EndOf(in_log) = 0
               THEN Finish("ok", {"empty"})
               ELSE pc' = "create" /\ UNCHANGED <<result, report>>
    /\ UNCHANGED <<fs, runv, viewv, pos, copyv, copied, dest_ops, entries, valv, verv>>

\* the options without truncate(true): a file that is there keeps its entries
CreateNoTruncate(path) ==
    /\ fs' = [fs EXCEPT ![path] = File(fs[path].log)]
    /\ dest_ops' = Append(dest_ops, IF fs[path].exists THEN "open" ELSE "create")

\* OpenOptions::new().write(true).create(true).truncate(true).open(path)
CreateOrTruncate(path) ==
    /\ fs' = [fs EXCEPT ![path] = File(<<>>)]
    /\ dest_ops' = Append(dest_ops, IF fs[path].exists THEN "truncate" ELSE "create")

ExtractCreate ==
    /\ pc = "create" /\ args.cmd = "extract"
    /\ CreateOrTruncate(out_path)
    \* copy_log_entries reads in_log.end() again and returns when it is 0
    /\ IF in_len = 0
       THEN Finish("ok", {"copying", "empty"})
       ELSE /\ report' = report \cup {"copying"}
            /\ pc' = "copy"
            /\ UNCHANGED result
    /\ UNCHANGED <<runv, viewv, opened, in_len, pos, copyv, copied, entries, valv, verv>>

\* a variant that applies invert to the outcome of the match, so that an
\* entry with no author is written when invert is set
ShouldWriteNegated(d) ==
    IF args.invert THEN AuthorOf(d) # args.feed_id
    ELSE AuthorOf(d) = args.feed_id

\* a variant that does not read invert
ShouldWriteNoInvert(d) == AuthorOf(d) = args.feed_id

\* the closure copy_log_entries_using_author hands to copy_log_entries, with
\* the predicate of the extract arm: |id| id != feed_id or |id| id == feed_id
ShouldWrite(d) ==
    IF AuthorOf(d) = "none" THEN FALSE
    ELSE IF args.invert THEN AuthorOf(d) # args.feed_id
         ELSE AuthorOf(d) = args.feed_id

\* (100.0 * (e.offset as f64 / in_len as f64)) as usize.  The quotient is
\* rounded to a double before it is multiplied: the product falls short of
\* the whole number 100 * offset / len when that number is 29, 57 or 58
\* (0.29, 0.57 and 0.58 round down, and 100.0 times them stays below), and
\* the cast truncates; for every other quotient the result is the floor
Percent(offset, len) ==
    LET q == (100 * offset) \div len
    IN IF (100 * offset) % len = 0 /\ q \in {29, 57, 58} THEN q - 1 ELSE q

\* one turn of the loop of copy_log_entries
CopyStep ==
    /\ pc = "copy"
    /\ pos < Len(in_log)
    /\ LET e == in_log[pos + 1]
           offset == OffsetOf(in_log, pos + 1)
           pct == Percent(offset, in_len)
           sw == ShouldWrite(e)
           new_bytes == IF sw THEN EndOf(out_log) ELSE bytes
           new_count == IF sw THEN count + 1 ELSE count
       IN /\ pos' = pos + 1
          /\ IF sw
             THEN /\ fs' = [fs EXCEPT ![out_path].log = Append(@, e)]
                  /\ dest_ops' = Append(dest_ops, "append")
                  /\ copied' = Append(copied, pos + 1)
             ELSE UNCHANGED <<fs, dest_ops, copied>>
          /\ bytes' = new_bytes
          /\ count' = new_count
          /\ IF sw \/ pct > prev_pct
             THEN /\ progress' = Append(progress, <<pct, new_count, new_bytes>>)
                  /\ prev_pct' = pct
             ELSE UNCHANGED <<progress, prev_pct>>
    /\ UNCHANGED <<runv, viewv, pc, result, report, opened, in_len, entries, valv, verv>>

CopyDone ==
    /\ pc = "copy"
    /\ pos = Len(in_log)
    /\ Finish("ok", {"done"})
    /\ UNCHANGED <<fs, runv, viewv, opened, in_len, pos, copyv, copied, dest_ops,
                   entries, valv, verv>>

\* the command is run again on the file system the ended run left: extract
\* with any arguments
ExtractAgain ==
    /\ pc = "done"
    /\ history = <<>>
    /\ history' = <<[args |-> args, src |-> fs0[in_path].log, pos |-> pos,
                     copied |-> copied, report |-> report, result |-> result]>>
    /\ args' \in ExtractArgs
    /\ fs0' = fs
    /\ pc' = "start"
    /\ result' = "running"
    /\ report' = {}
    /\ opened' = FALSE
    /\ in_len' = 0
    /\ pos' = 0
    /\ count' = 0
    /\ prev_pct' = 0
    /\ bytes' = 0
    /\ progress' = <<>>
    /\ copied' = <<>>
    /\ dest_ops' = <<>>
    /\ UNCHANGED <<fs, chunk_size, entries, valv, verv, viewv>>

(***************************************************************************)
(* sort                                                                    *)
(***************************************************************************)
SortRefuse ==
    /\ pc = "start" /\ args.cmd = "sort"
    /\ Refused
    /\ Finish("ok", {"exists"})
    /\ UNCHANGED <<fs, runv, viewv, opened, in_len, pos, copyv, copied, dest_ops,
                   entries, valv, verv>>

\* the sort arm creates the destination before it opens the source
SortCreate ==
    /\ pc = "start" /\ args.cmd = "sort"
    /\ ~Refused
    /\ CreateOrTruncate(out_path)
    /\ pc' = "open"
    /\ UNCHANGED <<runv, viewv, result, report, opened, in_len, pos, copyv, copied,
                   entries, valv, verv>>

SortOpen ==
    /\ pc = "open" /\ args.cmd = "sort"
    /\ IF ~fs[in_path].exists
       THEN /\ Finish("err", {})
            /\ UNCHANGED <<opened, in_len>>
       ELSE /\ opened' = TRUE
            /\ in_len' = EndOf(in_log)
            /\ IF EndOf(in_log) = 0
               THEN Finish("ok", {"empty"})
               ELSE pc' = "index" /\ UNCHANGED <<result, report>>
    /\ UNCHANGED <<fs, runv, viewv, pos, copyv, copied, dest_ops, entries, valv, verv>>

\* in_log.iter().forward().map(|entry| (get_entry_timestamp(&entry), entry.offset))
SortIndex ==
    /\ pc = "index"
    /\ entries' = [i \in 1..Len(in_log) |->
                     <<get_entry_timestamp(in_log[i]), OffsetOf(in_log, i)>>]
    /\ pc' = "sort"
    /\ UNCHANGED <<fs, runv, viewv, result, report, opened, in_len, pos, copyv, copied,
                   dest_ops, valv, verv>>

Perms(n) == {p \in [1..n -> 1..n] : \A i, j \in 1..n : p[i] = p[j] => i = j}

\* a comparator with its operands exchanged
SortedDescending(s) == \A i, j \in 1..Len(s) : i < j => s[i][1] >= s[j][1]

\* the comparator reads the timestamps alone: |(a, _), (b, _)| a.partial_cmp(&b)
Sorted(s) == \A i, j \in 1..Len(s) : i < j => s[i][1] <= s[j][1]

\* what par_sort_unstable_by may leave of s: an unstable sort gives some
\* ordering of the elements that the comparator finds sorted, and does not
\* say which when elements compare equal
UnstableSorts(s) ==
    {t \in {[i \in 1..Len(s) |-> s[p[i]]] : p \in Perms(Len(s))} : Sorted(t)}

SortEntries ==
    /\ pc = "sort"
    /\ entries' \in UnstableSorts(entries)
    /\ report' = report \cup {"sorted"}
    /\ pc' = "write"
    /\ UNCHANGED <<fs, runv, viewv, result, opened, in_len, pos, copyv, copied, dest_ops,
                   valv, verv>>

\* the position of the entry in_log.get(offset) reads; 0 when offset is no
\* entry's offset (get fails)
PositionOf(log, offset) ==
    IF \E i \in 1..Len(log) : OffsetOf(log, i) = offset
    THEN CHOOSE i \in 1..Len(log) : OffsetOf(log, i) = offset
    ELSE 0

\* one turn of entries.iter().for_each(..): get(offset).unwrap(), append(..).unwrap()
SortWrite ==
    /\ pc = "write"
    /\ pos < Len(entries)
    /\ LET at == PositionOf(in_log, entries[pos + 1][2])
       IN IF at = 0
          THEN /\ Finish("panic", {})
               /\ UNCHANGED <<fs, dest_ops, copied, pos>>
          ELSE /\ fs' = [fs EXCEPT ![out_path].log = Append(@, in_log[at])]
               /\ dest_ops' = Append(dest_ops, "append")
               /\ copied' = Append(copied, at)
               /\ pos' = pos + 1
               /\ UNCHANGED <<pc, result, report>>
    /\ UNCHANGED <<runv, viewv, opened, in_len, copyv, entries, valv, verv>>

SortDone ==
    /\ pc = "write"
    /\ pos = Len(entries)
    /\ Finish("ok", {})
    /\ UNCHANGED <<fs, runv, viewv, opened, in_len, pos, copyv, copied, dest_ops,
                   entries, valv, verv>>

(***************************************************************************)
(* validate                                                                *)
(***************************************************************************)
ValidateOpen ==
    /\ pc = "start" /\ args.cmd = "validate"
    /\ IF ~fs[in_path].exists
       THEN /\ Finish("err", {})
            /\ UNCHANGED <<opened, in_len>>
       ELSE /\ opened' = TRUE
            /\ in_len' = EndOf(in_log)
            /\ IF EndOf(in_log) = 0
               THEN Finish("ok", {"empty"})
               ELSE pc' = "scan" /\ UNCHANGED <<result, report>>
    /\ UNCHANGED <<fs, runv, viewv, pos, copyv, copied, dest_ops, entries, valv, verv>>

\* Option<Vec<u8>> as a sequence of at most one element
None == <<>>
Some(d) == <<d>>

\* ssb_validate::validate_hash_chain(msg, previous) is Ok: the message names
\* the key of the previous message of its feed, or null when there is none
validate_hash_chain(msg, previous) ==
    IF previous = None THEN msg.prev = 0 ELSE msg.prev = previous[1].id

\* what previous_messages_by_author.remove(&author) returns
Remove(map, author) == IF author \in DOMAIN map THEN Some(map[author]) ELSE None

\* the map that remove(&author) leaves
Without(map, author) == [a \in DOMAIN map \ {author} |-> map[a]]

\* an insert that is lost
InsertLost(map, author, data) == map

\* HashMap::insert(author, data)
Insert(map, author, data) ==
    [a \in DOMAIN map \cup {author} |-> IF a = author THEN data ELSE map[a]]

\* one turn of the filter/map over in_log.iter() that partition() drives
ValidateStep ==
    /\ pc = "scan" /\ args.cmd = "validate"
    /\ pos < Len(in_log)
    /\ LET msg == in_log[pos + 1]
           author == AuthorOf(msg)
           previous == Remove(previous_messages_by_author, author)
           res == validate_hash_chain(msg, previous)
       IN IF IsTombstone(msg)
          THEN /\ pos' = pos + 1
               /\ UNCHANGED <<pc, result, report, valv>>
          ELSE IF author = "none"
          \* serde_json::from_slice::<SsbMessage>(&msg.data).unwrap()
          THEN /\ Finish("panic", {})
               /\ UNCHANGED <<pos, valv>>
          ELSE /\ pos' = pos + 1
               /\ audits' = Append(audits, [msg |-> pos + 1, previous |-> previous])
               /\ previous_messages_by_author' =
                      Insert(Without(previous_messages_by_author, author), author, msg)
               /\ IF res
                  THEN oks' = Append(oks, <<pos + 1, author>>) /\ UNCHANGED errors
                  ELSE errors' = Append(errors, <<pos + 1, author>>) /\ UNCHANGED oks
               /\ UNCHANGED <<pc, result, report, summary, stats, printed>>
    /\ UNCHANGED <<fs, runv, viewv, opened, in_len, copyv, copied, dest_ops, entries, verv>>

RECURSIVE FoldReplacing(_, _)
\* a fold that inserts a list of one for every error
FoldReplacing(acc, errs) ==
    IF errs = <<>> THEN acc
    ELSE FoldReplacing(Insert(acc, errs[1][2], <<errs[1][1]>>), Tail(errs))

RECURSIVE Fold(_, _)
\* errors.into_iter().fold(errors_by_author, ..): push onto the author's list,
\* or insert a list of one
Fold(acc, errs) ==
    IF errs = <<>> THEN acc
    ELSE LET error == errs[1][1]
             author == errs[1][2]
         IN Fold(IF author \in DOMAIN acc
                 THEN [acc EXCEPT ![author] = Append(@, error)]
                 ELSE Insert(acc, author, <<error>>),
                 Tail(errs))

\* String's Ord on the feed ids of the model
Rank(a) == CASE a = "A" -> 1 [] a = "B" -> 2 [] a = "O" -> 3 [] OTHER -> 4

\* summary.keys() after par_sort_unstable_by(|a, b| a.cmp(b)): the keys are
\* distinct, so the sorted order is one
SortedKeys(map) ==
    CHOOSE s \in [1..Cardinality(DOMAIN map) -> DOMAIN map] :
        \A i, j \in DOMAIN s : i < j => Rank(s[i]) < Rank(s[j])

ValidateReport ==
    /\ pc = "scan" /\ args.cmd = "validate"
    /\ pos = Len(in_log)
    /\ LET sum == Fold(<<>>, errors)
       IN /\ summary' = sum
          /\ IF Cardinality(DOMAIN sum) = 0
             THEN /\ Finish("ok", {"allok"})
                  /\ UNCHANGED <<stats, printed>>
             ELSE /\ Finish("ok", {"notallok"})
                  /\ stats' = <<Len(oks), Cardinality(DOMAIN sum), Len(errors)>>
                  /\ printed' = SortedKeys(sum)
    /\ UNCHANGED <<fs, runv, viewv, opened, in_len, pos, copyv, copied, dest_ops, entries,
                   previous_messages_by_author, oks, errors, audits, verv>>

(***************************************************************************)
(* verify                                                                  *)
(***************************************************************************)
VerifyOpen ==
    /\ pc = "start" /\ args.cmd = "verify"
    /\ IF ~fs[in_path].exists
       THEN /\ Finish("err", {})
            /\ UNCHANGED <<opened, in_len>>
       ELSE /\ opened' = TRUE
            /\ in_len' = EndOf(in_log)
            /\ IF EndOf(in_log) = 0
               THEN Finish("ok", {"empty"})
               ELSE pc' = "scan" /\ UNCHANGED <<result, report>>
    /\ UNCHANGED <<fs, runv, viewv, pos, copyv, copied, dest_ops, entries, valv, verv>>

\* ssb_verify_signatures::verify(&data).is_ok()
verify(d) == JsonOk(d) /\ d.sig

\* ssb_verify_signatures::par_verify_batch(&msgs).is_ok(): the batch fails if
\* any member fails
par_verify_batch(msgs) == \A i \in 1..Len(msgs) : verify(msgs[i])

\* the positions after pos, with no filter
RemainingUnfiltered == (pos + 1)..Len(in_log)

\* the positions after pos that .filter(|data| !data.iter().all(|b| *b == 0)) lets through
Remaining == {i \in (pos + 1)..Len(in_log) : ~IsTombstone(in_log[i])}

RECURSIVE FirstN(_, _)
\* the n smallest elements of a set of positions, ascending
FirstN(S, n) ==
    IF S = {} \/ n = 0 THEN <<>>
    ELSE LET m == CHOOSE x \in S : \A y \in S : x <= y
         IN <<m>> \o FirstN(S \ {m}, n - 1)

\* sequential mode: one turn of .map(|data| verify(&data).is_ok()).all(|ok| ok),
\* which stops at the first false
VerifyOne ==
    /\ pc = "scan" /\ args.cmd = "verify"
    /\ ~args.parallel
    /\ Remaining # {}
    /\ LET at == FirstN(Remaining, 1)[1]
       IN /\ calls' = Append(calls, <<at>>)
          /\ pos' = at
          /\ IF verify(in_log[at])
             THEN UNCHANGED <<ok, pc>>
             ELSE ok' = FALSE /\ pc' = "report"
    /\ UNCHANGED <<fs, runv, viewv, result, report, opened, in_len, copyv, copied,
                   dest_ops, entries, valv>>

\* parallel mode: one turn of .chunks(2000).into_iter().map(..).all(|ok| ok)
VerifyChunk ==
    /\ pc = "scan" /\ args.cmd = "verify"
    /\ args.parallel
    /\ Remaining # {}
    /\ LET chunk == FirstN(Remaining, chunk_size)
           msgs == [i \in 1..Len(chunk) |-> in_log[chunk[i]]]
       IN /\ calls' = Append(calls, chunk)
          /\ pos' = chunk[Len(chunk)]
          /\ IF par_verify_batch(msgs)
             THEN UNCHANGED <<ok, pc>>
             ELSE ok' = FALSE /\ pc' = "report"
    /\ UNCHANGED <<fs, runv, viewv, result, report, opened, in_len, copyv, copied,
                   dest_ops, entries, valv>>

\* the iterator is exhausted: all() is true
VerifyEnd ==
    /\ pc = "scan" /\ args.cmd = "verify"
    /\ Remaining = {}
    /\ pos' = Len(in_log)
    /\ pc' = "report"
    /\ UNCHANGED <<fs, runv, viewv, result, report, opened, in_len, copyv, copied,
                   dest_ops, entries, valv, verv>>

\* the two lines exchanged
VerdictExchanged(all_ok) == IF all_ok THEN "notallok" ELSE "allok"

\* if ok { "All messages ok" } else { "Not all messages ok" }
Verdict(all_ok) == IF all_ok THEN "allok" ELSE "notallok"

VerifyReport ==
    /\ pc = "report"
    /\ Finish("ok", {Verdict(ok)})
    /\ UNCHANGED <<fs, runv, viewv, opened, in_len, pos, copyv, copied, dest_ops,
                   entries, valv, verv>>

(***************************************************************************)
(* view                                                                    *)
(***************************************************************************)
\* what stdin.keys() gives: the keys the match names, a character and a key
\* it does not name
QuitKeys == {"q", "Ctrl-c", "Esc"}
PrevKeys == {"Up", "Left", "p", "k"}
NextKeys == {"Down", "Right", "n", "j"}
OtherKeys == {"x", "F1"}

\* the log's bidirectional iterator over a log of n entries.  The position
\* is 0 before the first entry, i on the i-th entry and n + 1 past the last.
\* A call moves the position by one entry and gives the entry it reaches
\* (item: its position), or gives None (item 0) at the boundary, where it
\* gives None again however often it is repeated
IterNext(c, n) ==
    IF c < n THEN [item |-> c + 1, cursor |-> c + 1]
    ELSE [item |-> 0, cursor |-> n + 1]

IterPrev(c, n) ==
    IF c > 1 THEN [item |-> c - 1, cursor |-> c - 1]
    ELSE [item |-> 0, cursor |-> 0]

\* a terminal left in raw mode when the input fails
RawLeakedOnError(how) == IF how = "error" THEN "on" ELSE "released"

\* stdout, the RawTerminal, is dropped when view_log returns or unwinds, and
\* its drop restores the terminal
RawAfterExit(how) == "released"

\* a handler with no or_else
WrittenSilent(item) == IF item = 0 THEN "none" ELSE "entry"

\* .map(|(e, v)| print_entry(..)).or_else(|| write!(stdout, "No record").ok())
Written(item) == IF item = 0 THEN "norecord" ELSE "entry"

ViewOpen ==
    /\ pc = "start" /\ args.cmd = "view"
    /\ IF ~fs[in_path].exists
       THEN /\ Finish("err", {})
            /\ UNCHANGED opened
       ELSE /\ opened' = TRUE
            /\ pc' = "raw" /\ UNCHANGED <<result, report>>
    /\ UNCHANGED <<fs, runv, viewv, in_len, pos, copyv, copied, dest_ops, entries,
                   valv, verv>>

\* stdout().into_raw_mode()?: fails when stdout is no terminal
ViewRawMode ==
    /\ pc = "raw"
    /\ \E tty \in BOOLEAN :
         IF tty
         THEN /\ raw' = "on"
              /\ pc' = "first" /\ UNCHANGED <<result, report>>
         ELSE /\ Finish("err", {})
              /\ UNCHANGED raw
    /\ UNCHANGED <<fs, runv, cursor, shown, last_out, last_key, keys, opened, in_len,
                   pos, copyv, copied, dest_ops, entries, valv, verv>>

\* what the pager does with r, the outcome of a call of the mapped iterator:
\* the closure of BidirIterator::map decodes the entry and unwraps, then
\* print_entry writes it, or the handler writes none
Render(r, out) ==
    /\ cursor' = r.cursor
    /\ IF r.item # 0 /\ ~JsonOk(in_log[r.item])
       THEN /\ Finish("panic", {})
            /\ raw' = RawAfterExit("panic")
            /\ UNCHANGED <<shown, last_out>>
       ELSE /\ shown' = IF r.item # 0 THEN r.item ELSE shown
            /\ last_out' = IF out = "none" THEN last_out ELSE out
            /\ pc' = "keys"
            /\ UNCHANGED <<result, report, raw>>

\* iter.next().map(|(e, v)| print_entry(e.offset, &v, &mut stdout))
ViewFirst ==
    /\ pc = "first"
    /\ LET r == IterNext(cursor, Len(in_log))
       IN Render(r, IF r.item = 0 THEN "none" ELSE "entry")
    /\ UNCHANGED <<fs, runv, last_key, keys, opened, in_len, pos, copyv, copied,
                   dest_ops, entries, valv, verv>>

ViewQuit ==
    /\ pc = "keys"
    /\ \E k \in QuitKeys : last_key' = k
    /\ keys' = keys + 1
    /\ Finish("ok", {})
    /\ raw' = RawAfterExit("quit")
    /\ UNCHANGED <<fs, runv, cursor, shown, last_out, opened, in_len, pos, copyv,
                   copied, dest_ops, entries, valv, verv>>

ViewPrev ==
    /\ pc = "keys" /\ keys < MaxKeys
    /\ \E k \in PrevKeys : last_key' = k
    /\ keys' = keys + 1
    /\ LET r == IterPrev(cursor, Len(in_log))
       IN Render(r, Written(r.item))
    /\ UNCHANGED <<fs, runv, opened, in_len, pos, copyv, copied, dest_ops, entries,
                   valv, verv>>

ViewNext ==
    /\ pc = "keys" /\ keys < MaxKeys
    /\ \E k \in NextKeys : last_key' = k
    /\ keys' = keys + 1
    /\ LET r == IterNext(cursor, Len(in_log))
       IN Render(r, Written(r.item))
    /\ UNCHANGED <<fs, runv, opened, in_len, pos, copyv, copied, dest_ops, entries,
                   valv, verv>>

\* Key::Char(c) => eprintln!("KEY: {}", c), and _ => {}
ViewOtherKey ==
    /\ pc = "keys" /\ keys < MaxKeys
    /\ \E k \in OtherKeys :
         /\ last_key' = k
         /\ report' = IF k = "x" THEN report \cup {"key"} ELSE report
    /\ keys' = keys + 1
    /\ UNCHANGED <<fs, runv, raw, cursor, shown, last_out, pc, result, opened, in_len,
                   pos, copyv, copied, dest_ops, entries, valv, verv>>

\* c? on an item that is an error: view_log returns it
ViewInputError ==
    /\ pc = "keys"
    /\ last_key' = "error"
    /\ keys' = keys + 1
    /\ Finish("err", {})
    /\ raw' = RawAfterExit("error")
    /\ UNCHANGED <<fs, runv, cursor, shown, last_out, opened, in_len, pos, copyv,
                   copied, dest_ops, entries, valv, verv>>

\* stdin.keys() ends: the loop ends and view_log returns Ok(())
ViewEof ==
    /\ pc = "keys"
    /\ last_key' = "eof"
    /\ Finish("ok", {})
    /\ raw' = RawAfterExit("eof")
    /\ UNCHANGED <<fs, runv, cursor, shown, last_out, keys, opened, in_len, pos,
                   copyv, copied, dest_ops, entries, valv, verv>>

(***************************************************************************)
(* Specifications                                                          *)
(***************************************************************************)
ExtractData ==
    {Zero, Garbage, NoAuthor, Msg("A", 1, TRUE, 1, 0), Msg("A", 2, TRUE, 2, 1),
     Msg("B", 1, TRUE, 3, 0)}

InitExtract == Start(ExtractData, MaxLen, ExtractArgs, {CHUNK_SIZE})
NextExtract ==
    \/ ExtractRefuse
    \/ ExtractOpen
    \/ ExtractCreate
    \/ CopyStep
    \/ CopyDone
SpecExtract == InitExtract /\ [][NextExtract]_vars

\* entries none of which is written, of 553, 3 and 1408 bytes: in that order
\* their offsets are 0, 565 and 580 of 2000
ProgressData ==
    {Sized(Garbage, 553), Sized(Garbage, 3), Sized(Garbage, 1408),
     Msg("A", 1, TRUE, 1, 0)}

InitProgress == Start(ProgressData, MaxLenProgress, ExtractArgs, {CHUNK_SIZE})
SpecProgress == InitProgress /\ [][NextExtract]_vars

PairData ==
    {Zero, Garbage, Msg("A", 1, TRUE, 1, 0), Msg("A", 2, TRUE, 2, 1),
     Msg("B", 1, TRUE, 3, 0)}

\* extract, run twice
InitPair == Start(PairData, MaxLenPair, ExtractArgs, {CHUNK_SIZE})
NextPair ==
    \/ ExtractRefuse
    \/ ExtractOpen
    \/ ExtractCreate
    \/ CopyStep
    \/ CopyDone
    \/ ExtractAgain
SpecPair == InitPair /\ [][NextPair]_vars

SortData ==
    {Zero, Garbage, MsgNoTs("A", 1), Msg("A", 0, TRUE, 2, 0), Msg("A", 1, TRUE, 3, 0),
     Msg("B", 1, TRUE, 4, 0), Msg("B", 2, TRUE, 5, 0)}

InitSort == Start(SortData, MaxLenSort, SortArgs, {CHUNK_SIZE})
NextSort ==
    \/ SortRefuse
    \/ SortCreate
    \/ SortOpen
    \/ SortIndex
    \/ SortEntries
    \/ SortWrite
    \/ SortDone
SpecSort == InitSort /\ [][NextSort]_vars

ValidateData ==
    {Zero, Garbage, NoAuthor,
     Msg("A", 1, TRUE, 1, 0), Msg("A", 1, TRUE, 2, 1), Msg("A", 1, TRUE, 3, 1),
     Msg("A", 1, TRUE, 4, 3), Msg("B", 1, TRUE, 5, 0), Msg("B", 1, TRUE, 6, 4)}

InitValidate == Start(ValidateData, MaxLenValidate, ValidateArgs, {CHUNK_SIZE})
NextValidate ==
    \/ ValidateOpen
    \/ ValidateStep
    \/ ValidateReport
SpecValidate == InitValidate /\ [][NextValidate]_vars

VerifyData ==
    {Zero, Garbage, Msg("A", 1, TRUE, 1, 0), Msg("A", 1, FALSE, 2, 1)}

ChunkSizes == (1..MaxChunk) \cup {CHUNK_SIZE}

InitVerify == Start(VerifyData, MaxLenVerify, VerifyArgs, ChunkSizes)
NextVerify ==
    \/ VerifyOpen
    \/ VerifyOne
    \/ VerifyChunk
    \/ VerifyEnd
    \/ VerifyReport
SpecVerify == InitVerify /\ [][NextVerify]_vars

ViewData == {Zero, Garbage, Msg("A", 1, TRUE, 1, 0), Msg("B", 1, TRUE, 3, 0)}

InitView == Start(ViewData, MaxLenView, ViewArgs, {CHUNK_SIZE})
NextView ==
    \/ ViewOpen
    \/ ViewRawMode
    \/ ViewFirst
    \/ ViewQuit
    \/ ViewPrev
    \/ ViewNext
    \/ ViewOtherKey
    \/ ViewInputError
    \/ ViewEof
SpecView == InitView /\ [][NextView]_vars

\* every operation but view, over a small set of payloads
AllData == {Zero, Garbage, Msg("A", 1, TRUE, 1, 0), Msg("B", 0, FALSE, 2, 1)}

Init ==
    Start(AllData, MaxLen, ExtractArgs \cup SortArgs \cup ValidateArgs \cup VerifyArgs,
          {CHUNK_SIZE})
Next ==
    \/ ExtractRefuse
    \/ ExtractOpen
    \/ ExtractCreate
    \/ CopyStep
    \/ CopyDone
    \/ SortRefuse
    \/ SortCreate
    \/ SortOpen
    \/ SortIndex
    \/ SortEntries
    \/ SortWrite
    \/ SortDone
    \/ ValidateOpen
    \/ ValidateStep
    \/ ValidateReport
    \/ VerifyOpen
    \/ VerifyOne
    \/ VerifyChunk
    \/ VerifyEnd
    \/ VerifyReport
Spec == Init /\ [][Next]_vars

(***************************************************************************)
(* Properties                                                              *)
(***************************************************************************)
Range(s) == {s[i] : i \in 1..Len(s)}
NonTombstones(log) == {i \in 1..Len(log) : log[i].kind # "zero"}
HasAuthor(d) == d.kind = "json" /\ d.author # "none"
Authored(log) == {i \in 1..Len(log) : HasAuthor(log[i])}
Source0 == fs0[in_path].log

\* this run and the one before it are extract runs of the same feed id over
\* the same source log, one plain and one inverted, and both scanned the
\* whole of it
ComplementaryRuns ==
    /\ args.cmd = "extract" /\ pc = "done" /\ "done" \in report
    /\ Len(history) = 1
    /\ "done" \in history[1].report
    /\ history[1].args.in_path = in_path
    /\ history[1].args.feed_id = args.feed_id
    /\ history[1].args.invert # args.invert
    /\ history[1].src = Source0
    /\ history[1].pos = Len(Source0)
    /\ pos = Len(Source0)

\* C1 as claimed: extract(author) and extract(author, invert) of one source
\* log write disjoint sets of entries that together are all the entries of
\* the source that are not tombstones, and the counts add up to their number.
C1_PartitionOfNonTombstones ==
    ComplementaryRuns =>
        /\ Range(copied) \cap Range(history[1].copied) = {}
        /\ Range(copied) \cup Range(history[1].copied) = NonTombstones(Source0)
        /\ Len(copied) + Len(history[1].copied) = Cardinality(NonTombstones(Source0))

\* C1 as amended: the two runs write disjoint sets of entries that together
\* are exactly the entries of the source that decode with a string
\* value.author, and the counts add up to their number; an entry that does
\* not decode or has no author is written by neither.
C1_PartitionOfAuthored ==
    ComplementaryRuns =>
        /\ Range(copied) \cap Range(history[1].copied) = {}
        /\ Range(copied) \cup Range(history[1].copied) = Authored(Source0)
        /\ Len(copied) + Len(history[1].copied) = Cardinality(Authored(Source0))
        /\ count + Len(history[1].copied) = Cardinality(Authored(Source0))

C1_Witness ==
    /\ ComplementaryRuns
    /\ Source0 = <<Msg("A", 1, TRUE, 1, 0), Msg("B", 1, TRUE, 3, 0)>>
    /\ Len(copied) = 1 /\ Len(history[1].copied) = 1

\* the run began with --overwrite absent and the destination path taken
RefusedAtStart ==
    /\ args.cmd \in {"extract", "sort"}
    /\ ~args.overwrite
    /\ fs0[out_path].exists

\* C2 as claimed: extract, sort, validate and verify, given a source log
\* with end() = 0, leave the destination as it was (not created, not
\* truncated, nothing appended), call no verifier and no auditor, report that
\* the input is empty and end with success.  Stated of the runs that the
\* overwrite test does not refuse.
C2_EmptyLogGuard ==
    (fs0[in_path].exists /\ EndOf(Source0) = 0 /\ ~RefusedAtStart) =>
        /\ fs = fs0
        /\ calls = <<>> /\ audits = <<>>
        /\ pc = "done" => (result = "ok" /\ "empty" \in report)

\* C3 as claimed: no operation changes the entries of its source log,
\* whatever its arguments, an --out that names the file of --in with
\* --overwrite included.
C3_SourceNeverMutated ==
    fs0[in_path].exists => (fs[in_path].exists /\ fs[in_path].log = Source0)

AllVerify(log) == \A i \in NonTombstones(log) : log[i].kind = "json" /\ log[i].sig

\* C4: verify of a log that is not empty reports "All messages ok" if and
\* only if every entry that is not a tombstone verifies on its own, in
\* sequential mode and in parallel mode with any chunk size.
C4_VerifyConjunction ==
    (args.cmd = "verify" /\ in_len > 0) =>
        /\ pc = "report" => (ok <=> AllVerify(in_log))
        /\ pc = "done" =>
            /\ ok <=> AllVerify(in_log)
            /\ "allok" \in report <=> AllVerify(in_log)
            /\ "notallok" \in report <=> ~AllVerify(in_log)

C4_Witness ==
    /\ args.cmd = "verify" /\ args.parallel /\ chunk_size = 2 /\ pc = "done"
    /\ Len(in_log) = 4
    /\ \A i \in 1..3 : in_log[i].kind = "json" /\ in_log[i].sig
    /\ ~in_log[4].sig
    /\ Len(calls) = 2
    /\ "notallok" \in report

\* the previous message of the author of entry i, as Option
PrevSame(log, i) ==
    LET S == {j \in 1..(i - 1) : HasAuthor(log[j]) /\ log[j].author = log[i].author}
    IN IF S = {} THEN <<>> ELSE <<log[CHOOSE j \in S : \A k \in S : k <= j]>>

LinkOk(log, i) ==
    IF PrevSame(log, i) = <<>> THEN log[i].prev = 0
    ELSE log[i].prev = PrevSame(log, i)[1].id

RECURSIVE Ascending(_)
\* the elements of a set of positions, ascending
Ascending(S) ==
    IF S = {} THEN <<>>
    ELSE LET m == CHOOSE x \in S : \A y \in S : x <= y
         IN <<m>> \o Ascending(S \ {m})

\* C5: in a validate scan, after any prefix of the log, the map holds for
\* each author the raw bytes of the author's last message of the prefix,
\* passed or failed; the auditor was called once on each message of the
\* prefix that is no tombstone, with the author's message just before it (none
\* for a first message); and the errors are the messages whose link to that
\* message does not hold.
C5_ChainAuditState ==
    (args.cmd = "validate" /\ in_len > 0) =>
        LET seen == NonTombstones(SubSeq(in_log, 1, pos))
            failed == Ascending({i \in seen : ~LinkOk(in_log, i)})
            passed == Ascending({i \in seen : LinkOk(in_log, i)})
        IN /\ DOMAIN previous_messages_by_author = {in_log[i].author : i \in seen}
           /\ \A i \in seen :
                (\A j \in seen : in_log[j].author = in_log[i].author => j <= i)
                    => previous_messages_by_author[in_log[i].author] = in_log[i]
           /\ audits = [k \in 1..Cardinality(seen) |->
                          [msg |-> Ascending(seen)[k],
                           previous |-> PrevSame(in_log, Ascending(seen)[k])]]
           /\ errors = [k \in 1..Len(failed) |-> <<failed[k], in_log[failed[k]].author>>]
           /\ oks = [k \in 1..Len(passed) |-> <<passed[k], in_log[passed[k]].author>>]

\* messages 1 to 4 of A, the third with a wrong link: the fourth is audited
\* against the third and A has one error
C5_Witness ==
    /\ args.cmd = "validate" /\ pc = "done"
    /\ in_log = <<Msg("A", 1, TRUE, 1, 0), Msg("A", 1, TRUE, 2, 1),
                  Msg("A", 1, TRUE, 3, 1), Msg("A", 1, TRUE, 4, 3)>>
    /\ errors = << <<3, "A">> >>
    /\ audits[4].previous = <<Msg("A", 1, TRUE, 3, 1)>>
    /\ previous_messages_by_author["A"] = Msg("A", 1, TRUE, 4, 3)

\* C6 as claimed: an entry that is no tombstone and does not decode, or has
\* no author or timestamp, never aborts an operation; validate counts it as a
\* failed check, scans the rest and prints its report.
C6_DecodeFailureNonFatal ==
    /\ result # "panic"
    /\ (args.cmd = "validate" /\ pc = "done" /\ in_len > 0) =>
        /\ pos = Len(in_log)
        /\ report \cap {"allok", "notallok"} # {}
        /\ \A i \in NonTombstones(in_log) :
             ~HasAuthor(in_log[i]) => \E k \in 1..Len(errors) : errors[k][1] = i

Ts(d) == IF d.kind = "json" /\ d.hasTs THEN d.ts ELSE 0
NonDecreasing(log) == \A i, j \in 1..Len(log) : i < j => Ts(log[i]) <= Ts(log[j])
Increasing(log) == \A i, j \in 1..Len(log) : i < j => Ts(log[i]) < Ts(log[j])
SortRan == args.cmd = "sort" /\ pc = "done" /\ "sorted" \in report

AllStamped(log) == \A i \in 1..Len(log) : log[i].kind = "json" /\ log[i].hasTs

\* C7 as claimed: sort of a source whose timestamps, in offset order, do not
\* decrease writes the source's sequence of payloads, entries of equal
\* timestamp in their order included.  Stated of the sources whose entries
\* all carry a timestamp.
C7_SortedSourceReproduced ==
    (SortRan /\ AllStamped(Source0) /\ NonDecreasing(Source0)) => out_log = Source0

\* C7 as amended: when sort runs its write pass over a source whose
\* timestamps, in offset order, strictly increase, the destination is the
\* source's sequence of payloads; when they do not decrease, the destination
\* holds the source's entries with the same sequence of timestamps, and the
\* order of entries of equal timestamp is not determined.
C7_IncreasingSourceReproduced ==
    /\ (SortRan /\ Increasing(Source0)) => out_log = Source0
    /\ (SortRan /\ NonDecreasing(Source0)) =>
        /\ Len(out_log) = Len(Source0)
        /\ \A i \in 1..Len(Source0) : Ts(out_log[i]) = Ts(Source0[i])
        /\ \E p \in Perms(Len(Source0)) :
             \A i \in 1..Len(Source0) : out_log[i] = Source0[p[i]]

C7_Witness ==
    /\ SortRan /\ result = "ok"
    /\ Len(Source0) = 3 /\ Increasing(Source0)
    /\ out_log = Source0

\* C8: extract and sort, run without --overwrite on a destination path that
\* exists, report the refusal, leave every file as it was, do not open the
\* source, append nothing and end with success.
C8_OverwriteRefusal ==
    RefusedAtStart =>
        /\ pc \in {"start", "done"}
        /\ fs = fs0
        /\ dest_ops = <<>> /\ copied = <<>>
        /\ ~opened /\ pos = 0
        /\ pc = "done" => (result = "ok" /\ report = {"exists"})

C8_Witness ==
    /\ RefusedAtStart /\ pc = "done" /\ args.cmd = "sort"
    /\ in_path # out_path
    /\ Len(in_log) = 2
    /\ out_log = <<Old>>
    /\ "exists" \in report

\* C9: extract creates or truncates the destination only after the overwrite
\* test has passed and the source has been opened and found not empty; with
\* a source that is empty or cannot be opened it ends with every file as it
\* was.
C9_CreateAfterSourceCheck ==
    args.cmd = "extract" =>
        /\ dest_ops # <<>> =>
            /\ ~RefusedAtStart
            /\ opened /\ in_len > 0
            /\ fs0[in_path].exists /\ Source0 # <<>>
        /\ (~fs0[in_path].exists \/ EndOf(Source0) = 0) =>
            (fs = fs0 /\ dest_ops = <<>>)
        /\ (pc = "done" /\ ~RefusedAtStart /\ fs0[in_path].exists /\ EndOf(Source0) = 0)
            => (result = "ok" /\ report = {"empty"})
        /\ (pc = "done" /\ ~RefusedAtStart /\ ~fs0[in_path].exists) => result = "err"

C9_Witness ==
    /\ args.cmd = "extract" /\ pc = "done"
    /\ args.overwrite /\ in_path # out_path
    /\ fs0[in_path].exists /\ Source0 = <<>>
    /\ fs0[out_path].log = <<Old>> /\ out_log = <<Old>>
    /\ "empty" \in report

Matches(d) ==
    /\ HasAuthor(d)
    /\ IF args.invert THEN d.author # args.feed_id ELSE d.author = args.feed_id

\* C10: the destination extract writes holds the source entries that decode
\* with a string value.author for which (invert ? author != target : author
\* == target), each once, byte for byte, in the order of the source; an entry
\* that does not decode or has no author, a tombstone included, is not
\* written, whatever invert is.
C10_ExtractFilter ==
    (args.cmd = "extract" /\ "copying" \in report) =>
        LET read == SubSeq(in_log, 1, pos)
        IN /\ out_log = SelectSeq(read, Matches)
           /\ copied = Ascending({i \in 1..pos : Matches(in_log[i])})
           /\ count = Len(out_log)
           /\ in_path # out_path => in_log = Source0
           /\ (pc = "done" /\ in_len > 0) => ("done" \in report /\ pos = Len(in_log))

C10_Witness ==
    /\ args.cmd = "extract" /\ pc = "done" /\ "done" \in report
    /\ args.invert /\ args.feed_id = "B"
    /\ Source0 = <<Msg("A", 2, TRUE, 2, 1), Garbage, Msg("A", 1, TRUE, 1, 0)>>
    /\ out_log = <<Msg("A", 2, TRUE, 2, 1), Msg("A", 1, TRUE, 1, 0)>>

\* this run and the one before it are extract runs with the same feed id and
\* the same invert, this one reads the log the one before wrote (D1), and
\* both scanned all of their source; D1 is Source0, D2 is out_log
RoundTripRuns ==
    /\ args.cmd = "extract" /\ pc = "done" /\ result = "ok" /\ ~RefusedAtStart
    /\ Len(history) = 1
    /\ "done" \in history[1].report
    /\ history[1].pos = Len(history[1].src)
    /\ in_path = history[1].args.out_path
    /\ args.feed_id = history[1].args.feed_id
    /\ args.invert = history[1].args.invert
    /\ pos = Len(Source0)

\* C11 as claimed: for every source log that is not empty and every author,
\* extract of the author from the source to D1 and then of the same author
\* from D1 to D2 gives D2 the sequence of payloads of D1.
C11_RoundTrip ==
    RoundTripRuns => out_log = Source0

\* C11 as amended: when D1 holds at least one entry, the second extract
\* writes every entry of D1 and D2 is the sequence of payloads of D1; when
\* no entry of the source matches, D1 is empty and the second extract
\* reports an empty input and leaves D2 as it was, not created and not
\* truncated.
C11_RoundTripOfMatches ==
    RoundTripRuns =>
        IF Source0 # <<>>
        THEN /\ out_log = Source0
             /\ copied = [i \in 1..Len(Source0) |-> i]
             /\ count = Len(Source0)
        ELSE /\ "empty" \in report
             /\ fs = fs0 /\ dest_ops = <<>>

C11_Witness ==
    /\ RoundTripRuns
    /\ Len(history[1].src) = 2 /\ Len(history[1].copied) = 1
    /\ Source0 = <<Msg("A", 2, TRUE, 2, 1)>>
    /\ out_log = Source0

\* the pager is on the first entry, or has bounced off the start with the
\* first entry on the screen
AtFirst == shown = 1 /\ cursor <= 1
\* the pager is on the last entry, or has bounced off the end with the last
\* entry on the screen
AtLast == shown = Len(in_log) /\ cursor >= Len(in_log)

\* a key of the pager that retreats when first holds or advances when last
\* holds
BoundaryStep(first, last) ==
    /\ args.cmd = "view" /\ pc = "keys" /\ shown # 0
    /\ keys' = keys + 1
    /\ \/ last_key' \in PrevKeys /\ first
       \/ last_key' \in NextKeys /\ last

\* the entry on the screen is the same, "No record" is written and the
\* pager runs on
Bounced ==
    /\ shown' = shown
    /\ last_out' = "norecord"
    /\ pc' = "keys" /\ result' = "running" /\ raw' = "on"

C13_TombstoneSkipping ==
    (args.cmd = "view" /\ \A i \in 1..Len(in_log) :
                              IsTombstone(in_log[i]) \/ HasAuthor(in_log[i])) =>
        /\ result # "panic"
        /\ (pc = "keys" /\ keys = 0 /\ NonTombstones(in_log) # {}) =>
             (shown # 0 /\ ~IsTombstone(in_log[shown]))

Verifies(d) == d.kind = "json" /\ d.sig
SequentialVerify == args.cmd = "verify" /\ ~args.parallel /\ in_len > 0
CallsOf(S) == [k \in 1..Cardinality(S) |-> <<Ascending(S)[k]>>]

\* C14 as claimed: in sequential mode the verifier is called on every entry
\* of the log that is no tombstone, the entries after the first that fails
\* included.
C14_NoShortCircuit ==
    (SequentialVerify /\ pc = "done") => calls = CallsOf(NonTombstones(in_log))

\* C14 as amended: in sequential mode the verifier is called, one entry a
\* call and in log order, on the entries that are no tombstones up to and
\* including the first that fails, and on no entry after it; the scan ends
\* at that entry, or at the end of the log when none fails.
C14_StopsAtFirstFailure ==
    SequentialVerify =>
        LET nt == NonTombstones(in_log)
            failing == {i \in nt : ~Verifies(in_log[i])}
        IN /\ calls = CallsOf({i \in nt : i <= pos})
           /\ \A i \in failing : \A j \in nt : j > i => ~(\E k \in 1..Len(calls) : calls[k] = <<j>>)
           /\ pc \in {"report", "done"} =>
                IF failing = {} THEN pos = Len(in_log) /\ ok
                ELSE pos = Ascending(failing)[1] /\ ~ok

C14_Witness ==
    /\ SequentialVerify /\ pc = "done"
    /\ in_log = <<Msg("A", 1, TRUE, 1, 0), Zero, Msg("A", 1, FALSE, 2, 1),
                  Msg("A", 1, TRUE, 1, 0)>>
    /\ calls = << <<1>>, <<3>> >>
    /\ "notallok" \in report

\* C15: for every source log that is not empty, the destination sort writes
\* holds every entry of the source once, byte for byte, none dropped and none
\* twice, in an order in which the timestamps do not decrease, the timestamp
\* of an entry that does not decode or has no numeric value.timestamp being 0.
C15_SortOutput ==
    SortRan =>
        /\ result = "ok"
        /\ Len(copied) = Len(Source0)
        /\ Range(copied) = 1..Len(Source0)
        /\ out_log = [i \in 1..Len(Source0) |-> Source0[copied[i]]]
        /\ NonDecreasing(out_log)

C15_Witness ==
    /\ SortRan
    /\ Source0 = <<Msg("B", 2, TRUE, 5, 0), Zero, Msg("A", 1, TRUE, 3, 0)>>
    /\ out_log = <<Zero, Msg("A", 1, TRUE, 3, 0), Msg("B", 2, TRUE, 5, 0)>>

\* String's order on the feed ids of the model
Before(a, b) == <<a, b>> \in {<<"A", "B">>, <<"A", "O">>, <<"B", "O">>}

\* C16: at the end of a validate scan, "all ok" is reported if and only if
\* no audited message failed; otherwise the ok count and the error count add
\* up to the number of entries that are no tombstones, the author count is
\* the number of authors with a failed message, the lists of the authors'
\* errors hold one error for each failed message, in log order, and each of
\* those authors is printed once, in ascending order.
C16_ValidateReport ==
    (args.cmd = "validate" /\ pc = "done" /\ result = "ok" /\ in_len > 0) =>
        LET nt == NonTombstones(in_log)
            failed == {i \in nt : ~LinkOk(in_log, i)}
            authors == {in_log[i].author : i \in failed}
        IN /\ "allok" \in report <=> failed = {}
           /\ "notallok" \in report <=> failed # {}
           /\ failed = {} => (stats = <<>> /\ printed = <<>>)
           /\ failed # {} =>
                /\ stats = <<Cardinality(nt \ failed), Cardinality(authors),
                             Cardinality(failed)>>
                /\ stats[1] + stats[3] = Cardinality(nt)
                /\ DOMAIN summary = authors
                /\ \A a \in authors :
                     summary[a] = Ascending({i \in failed : in_log[i].author = a})
                /\ Len(printed) = Cardinality(authors)
                /\ Range(printed) = authors
                /\ \A i, j \in 1..Len(printed) : i < j => Before(printed[i], printed[j])

\* one message passes and three fail, two of them of A
C16_Witness ==
    /\ args.cmd = "validate" /\ pc = "done" /\ result = "ok"
    /\ in_log = <<Msg("B", 1, TRUE, 5, 0), Msg("A", 1, TRUE, 3, 1),
                  Msg("B", 1, TRUE, 6, 4), Msg("A", 1, TRUE, 3, 1)>>
    /\ stats = <<1, 2, 3>>
    /\ summary["A"] = <<2, 4>> /\ summary["B"] = <<3>>
    /\ printed = <<"A", "B">>

\* floor(100 * offset / source_end)
PercentExact(offset, len) == (100 * offset) \div len

RECURSIVE LinesDue(_)
\* the <<percentage, count>> of the lines due after the first k entries: a
\* line after an entry that was written or whose percentage, as the program
\* computes it, is greater than that of the last line (0 when there is none)
LinesDue(k) ==
    IF k = 0 THEN <<>>
    ELSE LET before == LinesDue(k - 1)
             last == IF before = <<>> THEN 0 ELSE before[Len(before)][1]
             pct == Percent(OffsetOf(in_log, k), in_len)
             n == Cardinality({i \in 1..k : Matches(in_log[i])})
         IN IF Matches(in_log[k]) \/ pct > last
            THEN Append(before, <<pct, n>>)
            ELSE before

\* every line carries the number of entries appended so far, the
\* percentages and the counts do not decrease, and the last count is the
\* number of entries appended
ProgressCounts ==
    (args.cmd = "extract" /\ "copying" \in report /\ in_len > 0) =>
        /\ \A i \in 1..Len(progress) : progress[i][2] <= Len(out_log)
        /\ progress # <<>> => progress[Len(progress)][2] = Len(out_log)
        /\ progress = <<>> => Len(out_log) = 0
        /\ \A i, j \in 1..Len(progress) :
             i < j => (progress[i][1] <= progress[j][1] /\ progress[i][2] <= progress[j][2])

\* the percentage of the last line written, 0 when there is none
LastPct == IF progress = <<>> THEN 0 ELSE progress[Len(progress)][1]

\* a turn of the copy loop writes a line if and only if it wrote the entry
\* or the entry's exact percentage is greater than that of the last line
LineIffWrittenOrAhead ==
    (args.cmd = "extract" /\ pc = "copy" /\ pos' = pos + 1) =>
        (Len(progress') = Len(progress) + 1
            <=> \/ Matches(in_log[pos + 1])
                \/ PercentExact(OffsetOf(in_log, pos + 1), in_len) > LastPct)

\* C17 as claimed: during the copy scan a line is written after an entry if
\* and only if the entry was written or floor(100 * offset / source_end) is
\* greater than the percentage of the last line; each line carries the number
\* of entries appended so far, the percentages and the counts do not
\* decrease, and the last count is the number of entries appended.
C17_ExtractProgress ==
    /\ []ProgressCounts
    /\ [][LineIffWrittenOrAhead]_vars

\* the lines written are the lines due by the percentage the program
\* computes, and their counts are as claimed
ProgressAsComputed ==
    /\ ProgressCounts
    /\ (args.cmd = "extract" /\ "copying" \in report /\ in_len > 0) =>
         [i \in 1..Len(progress) |-> <<progress[i][1], progress[i][2]>>] = LinesDue(pos)

\* C18: view takes the terminal's raw mode once, before it reads a key; on
\* every way out (a quit key in any state, the end of the input, an input
\* error) the raw mode is released when view returns; a quit key ends the
\* pager whatever the cursor's state.
C18_RawModeScoped ==
    args.cmd = "view" =>
        /\ pc \in {"start", "raw"} => raw = "never"
        /\ pc \in {"first", "keys"} => raw = "on"
        /\ pc = "done" => raw # "on"
        /\ (pc = "done" /\ last_key # "none") => raw = "released"
        /\ last_key \in QuitKeys => (pc = "done" /\ result = "ok")
        /\ last_key = "eof" => (pc = "done" /\ result = "ok")
        /\ last_key = "error" => (pc = "done" /\ result = "err")

\* the input fails after a bounce off the end of the log
C18_Witness ==
    /\ args.cmd = "view" /\ pc = "done"
    /\ last_key = "error" /\ result = "err"
    /\ keys = 3 /\ last_out = "norecord" /\ cursor = Len(in_log) + 1
    /\ raw = "released"

====
